---------------------------- MODULE Spec2Model ----------------------------
(***************************************************************************)
(* Model of add-terms.py: the interactive loop that reads question,        *)
(* answer and category lines from standard input and appends them to the   *)
(* dict_tbl / learn_tbl tables of an AnyMemo SQLite database.              *)
(*                                                                         *)
(* Text is a sequence of one-character strings, so that str.strip(),       *)
(* str.lower() and SQL trim() are computed and not assumed.  One step of   *)
(* the model is everything the program does between two blocking points:   *)
(* a call of input(), or one of the two INSERT statements (Ctrl+C can      *)
(* arrive between them).                                                   *)
(***************************************************************************)
EXTENDS Integers, Sequences, FiniteSets, TLC

(* ------------------------------ bounds -------------------------------- *)

\* Number of lines standard input delivers before the model stops reading.
MaxLines == 7

(* ------------------------------- text --------------------------------- *)

\* Characters str.strip() removes (the two that occur in the input lines).
Whitespace == {" ", "\t"}

\* Characters SQL trim(X) removes: the space only.
SqlSpace == {" "}

RECURSIVE lstrip(_, _)
lstrip(s, chars) ==
    IF s # <<>> /\ Head(s) \in chars THEN lstrip(Tail(s), chars) ELSE s

RECURSIVE rstrip(_, _)
rstrip(s, chars) ==
    IF s # <<>> /\ s[Len(s)] \in chars
    THEN rstrip(SubSeq(s, 1, Len(s) - 1), chars)
    ELSE s

\* str.strip()
strip(s) == rstrip(lstrip(s, Whitespace), Whitespace)

\* SQL trim(X)
trim(s) == rstrip(lstrip(s, SqlSpace), SqlSpace)

lower_char(c) ==
    CASE c = "Y" -> "y"
      [] c = "E" -> "e"
      [] c = "S" -> "s"
      [] c = "N" -> "n"
      [] c = "O" -> "o"
      [] OTHER -> c

\* str.lower()
lower(s) == [i \in 1..Len(s) |-> lower_char(s[i])]

\* Python's None: a value no line of text is equal to.
None == <<"<None>">>

\* Python truth value of a str-or-None.
Truthy(v) == v # None /\ v # <<>>

Range(s) == {s[i] : i \in DOMAIN s}

(* ------------------------------ policy -------------------------------- *)

EXISTING_ASK == 0
EXISTING_SKIP == 1
EXISTING_ADD == 2

Policies == {EXISTING_ASK, EXISTING_SKIP, EXISTING_ADD}

(* --------------------------- input and stores -------------------------- *)

t_y == <<"y">>
t_no == <<"n", "o">>
t_YES == <<"Y", "E", "S">>

\* The lines standard input may deliver.
Lines ==
    { <<>>,
      <<"\t", " ">>,
      t_y,
      <<" ", "Y", "E", "S", "\t">>,
      t_no }

\* The scheduling record inserted with every new entry.
DefaultLearn == <<"2010-01-01", 0, 0, "2.5", 0, 0, 0, 0, 0>>

\* A scheduling record of an entry that was already studied.
OldLearn == <<"2010-06-01", 3, 4, "2.6", 2, 1, 0, 2, 1>>

\* Database files the session may be started on: rows of dict_tbl are
\* <<question, answer, category>>, with one learn_tbl row per entry.
Databases ==
    { [dict_tbl |-> <<>>, learn_tbl |-> <<>>],
      [dict_tbl |-> << <<t_no, t_y, t_YES>> >>, learn_tbl |-> <<OldLearn>>],
      [dict_tbl |-> << << <<" ", "n", "o">>, <<"\t", "y">>, <<"Y", "E", "S", " ">> >>,
                       <<t_y, t_no, t_y>> >>,
       learn_tbl |-> <<OldLearn, DefaultLearn>>] }

(* ------------------------------- state -------------------------------- *)

VARIABLES
    when_existing,  \* the conflict policy of the session
    db0,            \* the database file as it was when the session started
    disk,           \* the database file (what is committed)
    conn,           \* "open" or "closed"
    dict_tbl,       \* dict_tbl as the connection sees it (with pending rows)
    learn_tbl,      \* learn_tbl as the connection sees it
    pc,             \* where the program is blocked
    question,       \* locals of ask_for_entries
    answer,
    category,
    last_category,
    cand,           \* return_value of the check_existing that is asking
    categories,     \* CategoryCompleter.categories
    consumed,       \* number of lines read from standard input
    last_input,     \* the last line read and the prompt it was read at
    cycle,          \* values accepted so far in the current pass of the loop
    log,            \* triples accepted in this session, in order
    argv,           \* the command line, without the program name
    exit_code,      \* <<>> while the process runs, then <<its exit status>>
    completion      \* <<>>, or <<text, state, result>> of the last complete()

vars ==
    <<when_existing, db0, disk, conn, dict_tbl, learn_tbl, pc, question,
      answer, category, last_category, cand, categories, consumed,
      last_input, cycle, log, argv, exit_code, completion>>

AskPrompts == {"ask_for_question", "ask_for_answer", "ask_for_category"}

ConfirmPrompts == {"confirm_question", "confirm_answer", "confirm_category"}

Prompts == AskPrompts \cup ConfirmPrompts

(* ------------------------- CategoryCompleter --------------------------- *)

RECURSIVE distinct(_)
distinct(s) ==
    IF s = <<>> THEN <<>>
    ELSE LET front == distinct(SubSeq(s, 1, Len(s) - 1))
             x == s[Len(s)]
         IN IF x \in Range(front) THEN front ELSE Append(front, x)

\* CategoryCompleter.__init__: SELECT DISTINCT category FROM dict_tbl
completer_init(tbl) == distinct([i \in DOMAIN tbl |-> tbl[i][3]])

\* add_category without "new_category not in self.categories".
add_category_unchecked(cats, new_category) ==
    IF Truthy(new_category) THEN Append(cats, new_category) ELSE cats

\* CategoryCompleter.add_category
add_category(cats, new_category) ==
    IF Truthy(new_category) /\ new_category \notin Range(cats)
    THEN Append(cats, new_category)
    ELSE cats

\* CategoryCompleter.complete: None is returned when state is out of range.
complete(cats, text, state) ==
    LET options == SelectSeq(cats, LAMBDA c :
                       Len(c) >= Len(text) /\ SubSeq(c, 1, Len(text)) = text)
    IN IF state < Len(options) THEN options[state + 1] ELSE None

(* ------------------------------ queries ------------------------------- *)

\* answers_for run on a second connection, which sees committed rows only.
answers_for_committed(q) == SelectSeq(disk.dict_tbl, LAMBDA r : trim(r[1]) = q)

\* SELECT answer FROM dict_tbl WHERE trim(question)=?
answers_for(q) == SelectSeq(dict_tbl, LAMBDA r : trim(r[1]) = q)

\* questions_for with the WHERE clause of the question query left in place.
questions_for_by_question(a) == SelectSeq(dict_tbl, LAMBDA r : trim(r[1]) = a)

\* SELECT question FROM dict_tbl WHERE trim(answer)=?
questions_for(a) == SelectSeq(dict_tbl, LAMBDA r : trim(r[2]) = a)

\* count_category comparing trim(category), as the other two queries do.
count_category_trimmed(c) == Len(SelectSeq(dict_tbl, LAMBDA r : trim(r[3]) = c))

\* SELECT count(*) FROM dict_tbl WHERE category=?   (NULL matches no row)
count_category(c) == Len(SelectSeq(dict_tbl, LAMBDA r : r[3] = c))

(* --------------------------- check_existing ---------------------------- *)

\* confirm(): the line read at the "[y/n]" prompt, as a truth value.
confirm(line) == lower(strip(line)) \in {<<"y">>, <<"y", "e", "s">>}

\* Whether check_existing calls confirm(), i.e. shows the "[y/n]" prompt.
asks(exists, policy) ==
    exists /\ policy # EXISTING_ADD /\ policy = EXISTING_ASK

\* check_existing without "and when_existing != EXISTING_ADD".
check_existing_add_unchecked(exists, return_value, policy, confirmed) ==
    IF exists
    THEN IF policy = EXISTING_ASK /\ confirmed THEN return_value ELSE None
    ELSE IF Truthy(return_value) THEN return_value ELSE None

\* check_existing testing "when_existing == EXISTING_ASK" in the outer if.
check_existing_skip_unchecked(exists, return_value, policy, confirmed) ==
    IF exists /\ policy = EXISTING_ASK
    THEN IF confirmed THEN return_value ELSE None
    ELSE IF Truthy(return_value) THEN return_value ELSE None

\* check_existing; confirmed is the result of confirm() where it is called.
check_existing(exists, return_value, policy, confirmed) ==
    IF exists /\ policy # EXISTING_ADD
    THEN IF policy = EXISTING_ASK /\ confirmed THEN return_value ELSE None
    ELSE IF Truthy(return_value) THEN return_value ELSE None

(* --------------------------- the command line -------------------------- *)

\* Command lines the program may be started with.
Argvs ==
    { <<>>,
      <<"-s">>,
      <<"-s", "-f">>,
      <<"-f", "-s">>,
      <<"-v", "-f">>,
      <<"-f", "extra">> }

\* What parser.parse_args() starts from: the defaults of the options.
option_defaults == [when_existing |-> EXISTING_ASK, verbose |-> FALSE, args |-> <<>>]

\* One argument with "-s" storing nothing once "-f" was seen.
option_first_wins(values, arg) ==
    CASE arg \in {"-f", "--force"} ->
             [values EXCEPT !.when_existing = EXISTING_ADD]
      [] arg \in {"-s", "--skip-existing"} ->
             IF values.when_existing = EXISTING_ADD THEN values
             ELSE [values EXCEPT !.when_existing = EXISTING_SKIP]
      [] arg \in {"-v", "--verbose"} -> [values EXCEPT !.verbose = TRUE]
      [] OTHER -> [values EXCEPT !.args = Append(@, arg)]

\* One argument of the command line: store_const / store_true into its
\* dest, or a positional argument.
option(values, arg) ==
    CASE arg \in {"-f", "--force"} ->
             [values EXCEPT !.when_existing = EXISTING_ADD]
      [] arg \in {"-s", "--skip-existing"} ->
             [values EXCEPT !.when_existing = EXISTING_SKIP]
      [] arg \in {"-v", "--verbose"} -> [values EXCEPT !.verbose = TRUE]
      [] OTHER -> [values EXCEPT !.args = Append(@, arg)]

\* parser.parse_args(): the arguments are processed from left to right.
RECURSIVE parse_args(_, _)
parse_args(args, values) ==
    IF args = <<>> THEN values
    ELSE parse_args(Tail(args), option(values, Head(args)))

(* ------------------------------ the loop ------------------------------ *)

Init ==
    /\ argv \in Argvs
    /\ exit_code = <<>>
    /\ completion = <<>>
    /\ when_existing = option_defaults.when_existing
    /\ db0 \in Databases
    /\ disk = db0
    /\ conn = "unopened"
    /\ dict_tbl = db0.dict_tbl
    /\ learn_tbl = db0.learn_tbl
    /\ pc = "main"
    /\ question = None
    /\ answer = None
    /\ category = None
    /\ last_category = None
    /\ cand = None
    /\ categories = <<>>
    /\ consumed = 0
    /\ last_input = [at |-> "start", line |-> <<>>]
    /\ cycle = <<>>
    /\ log = <<>>

\* input(): one more line is taken from standard input at the current prompt.
Read(line) ==
    /\ consumed < MaxLines
    /\ consumed' = consumed + 1
    /\ last_input' = [at |-> pc, line |-> line]

\* check_existing blocks in confirm() with return_value v.
Prompt(p, v) ==
    /\ pc' = p
    /\ cand' = v
    /\ UNCHANGED <<question, answer, category, last_category, categories,
                   cycle, log>>

Accepted(v, exists, asked) == [value |-> v, exists |-> exists, asked |-> asked]

\* ask_for_entries after ask_for_question returned result.
after_question(result, exists, asked) ==
    /\ question' = result
    /\ cand' = None
    /\ IF Truthy(result)
       THEN /\ pc' = "ask_for_answer"
            /\ cycle' = <<Accepted(result, exists, asked)>>
       ELSE /\ pc' = "ask_for_question"
            /\ cycle' = <<>>
    /\ UNCHANGED <<answer, category, last_category, categories, log>>

\* after_answer without "if not answer: continue".
after_answer_no_restart(result, exists, asked) ==
    /\ answer' = result
    /\ cand' = None
    /\ pc' = "ask_for_category"
    /\ cycle' = Append(cycle, Accepted(result, exists, asked))
    /\ UNCHANGED <<question, category, last_category, categories, log>>

\* ask_for_entries after ask_for_answer returned result.
after_answer(result, exists, asked) ==
    /\ answer' = result
    /\ cand' = None
    /\ IF Truthy(result)
       THEN /\ pc' = "ask_for_category"
            /\ cycle' = Append(cycle, Accepted(result, exists, asked))
       ELSE /\ pc' = "ask_for_question"
            /\ cycle' = <<>>
    /\ UNCHANGED <<question, category, last_category, categories, log>>

\* after_category with "last_category = category" ahead of "if not category".
after_category_default_overwritten(result, exists, asked) ==
    /\ cand' = None
    /\ last_category' = result
    /\ IF Truthy(result)
       THEN /\ categories' = add_category(categories, result)
            /\ category' = result
            /\ pc' = "insert_dict_tbl"
            /\ cycle' = Append(cycle, Accepted(result, exists, asked))
            /\ log' = Append(log, <<cycle[1].value, cycle[2].value, result>>)
       ELSE /\ category' = None
            /\ pc' = "ask_for_question"
            /\ cycle' = <<>>
            /\ UNCHANGED <<categories, log>>
    /\ UNCHANGED <<question, answer>>

\* The rest of ask_for_category once check_existing returned result, and
\* ask_for_entries after ask_for_category returned.
after_category(result, exists, asked) ==
    /\ cand' = None
    /\ IF Truthy(result)
       THEN /\ categories' = add_category(categories, result)
            /\ category' = result
            /\ last_category' = result
            /\ pc' = "insert_dict_tbl"
            /\ cycle' = Append(cycle, Accepted(result, exists, asked))
            /\ log' = Append(log, <<cycle[1].value, cycle[2].value, result>>)
       ELSE /\ category' = None
            /\ pc' = "ask_for_question"
            /\ cycle' = <<>>
            /\ UNCHANGED <<categories, last_category, log>>
    /\ UNCHANGED <<question, answer>>

Tables ==
    <<when_existing, db0, disk, conn, dict_tbl, learn_tbl, argv, exit_code>>

ask_for_question(line) ==
    /\ pc = "ask_for_question"
    /\ Read(line)
    /\ LET q == strip(line)
           exists == answers_for(q) # <<>>
       IN IF asks(exists, when_existing)
          THEN Prompt("confirm_question", q)
          ELSE after_question(check_existing(exists, q, when_existing, FALSE),
                              exists, FALSE)
    /\ UNCHANGED <<Tables, completion>>

confirm_question(line) ==
    /\ pc = "confirm_question"
    /\ Read(line)
    /\ after_question(check_existing(answers_for(cand) # <<>>, cand,
                                     when_existing, confirm(line)),
                      TRUE, TRUE)
    /\ UNCHANGED <<Tables, completion>>

ask_for_answer(line) ==
    /\ pc = "ask_for_answer"
    /\ Read(line)
    /\ LET a == strip(line)
           exists == questions_for(a) # <<>>
       IN IF asks(exists, when_existing)
          THEN Prompt("confirm_answer", a)
          ELSE after_answer(check_existing(exists, a, when_existing, FALSE),
                            exists, FALSE)
    /\ UNCHANGED <<Tables, completion>>

confirm_answer(line) ==
    /\ pc = "confirm_answer"
    /\ Read(line)
    /\ after_answer(check_existing(questions_for(cand) # <<>>, cand,
                                   when_existing, confirm(line)),
                    TRUE, TRUE)
    /\ UNCHANGED <<Tables, completion>>

\* category_candidate without "if not category: category = last_category".
category_candidate_no_default(line, last) ==
    IF ~Truthy(strip(line)) THEN None ELSE strip(line)

\* The candidate category: the stripped line, or the default when it is empty.
category_candidate(line, last) ==
    IF ~Truthy(strip(line)) THEN last ELSE strip(line)

ask_for_category(line) ==
    /\ pc = "ask_for_category"
    /\ Read(line)
    /\ LET c == category_candidate(line, last_category)
           exists == count_category(c) = 0
       IN IF asks(exists, when_existing)
          THEN Prompt("confirm_category", c)
          ELSE after_category(check_existing(exists, c, when_existing, FALSE),
                              exists, FALSE)
    /\ completion' = <<>>
    /\ UNCHANGED Tables

confirm_category(line) ==
    /\ pc = "confirm_category"
    /\ Read(line)
    /\ after_category(check_existing(count_category(cand) = 0, cand,
                                     when_existing, confirm(line)),
                      TRUE, TRUE)
    /\ UNCHANGED <<Tables, completion>>

Locals ==
    <<question, answer, category, last_category, cand, categories, consumed,
      last_input, cycle, log, completion>>

\* insert_dict_tbl with the first two parameters in the wrong order.
insert_dict_tbl_swapped ==
    /\ pc = "insert_dict_tbl"
    /\ dict_tbl' = Append(dict_tbl, <<answer, question, category>>)
    /\ pc' = "insert_learn_tbl"
    /\ UNCHANGED <<when_existing, db0, disk, conn, learn_tbl, argv, exit_code>>
    /\ UNCHANGED Locals

\* insert_dict_tbl as INSERT OR REPLACE with the question as the key.
insert_dict_tbl_or_replace ==
    /\ pc = "insert_dict_tbl"
    /\ dict_tbl' =
         IF \E i \in DOMAIN dict_tbl : dict_tbl[i][1] = question
         THEN [i \in DOMAIN dict_tbl |->
                  IF dict_tbl[i][1] = question
                  THEN <<question, answer, category>>
                  ELSE dict_tbl[i]]
         ELSE Append(dict_tbl, <<question, answer, category>>)
    /\ pc' = "insert_learn_tbl"
    /\ UNCHANGED <<when_existing, db0, disk, conn, learn_tbl, argv, exit_code>>
    /\ UNCHANGED Locals

\* INSERT INTO dict_tbl (question, answer, category) VALUES (?, ?, ?)
insert_dict_tbl ==
    /\ pc = "insert_dict_tbl"
    /\ dict_tbl' = Append(dict_tbl, <<question, answer, category>>)
    /\ pc' = "insert_learn_tbl"
    /\ UNCHANGED <<when_existing, db0, disk, conn, learn_tbl, argv, exit_code>>
    /\ UNCHANGED Locals

\* INSERT INTO learn_tbl (...) VALUES ('2010-01-01', 0, 0, 2.5, 0, 0, 0, 0, 0)
\* and the jump back to the head of the loop.
insert_learn_tbl ==
    /\ pc = "insert_learn_tbl"
    /\ learn_tbl' = Append(learn_tbl, DefaultLearn)
    /\ pc' = "ask_for_question"
    /\ cycle' = <<>>
    /\ UNCHANGED <<when_existing, db0, disk, conn, dict_tbl, argv, exit_code>>
    /\ UNCHANGED <<question, answer, category, last_category, cand,
                   categories, consumed, last_input, log, completion>>

\* EOFError without conn.commit().
EOFError_without_commit ==
    /\ pc \in Prompts
    /\ conn' = "closed"
    /\ pc' = "saved"
    /\ exit_code' = <<0>>
    /\ UNCHANGED <<when_existing, db0, disk, dict_tbl, learn_tbl, argv>>
    /\ UNCHANGED Locals

\* input() raises EOFError: except EOFError commits, finally closes, and the
\* script ends.
EOFError ==
    /\ pc \in Prompts
    /\ disk' = [dict_tbl |-> dict_tbl, learn_tbl |-> learn_tbl]
    /\ conn' = "closed"
    /\ pc' = "saved"
    /\ exit_code' = <<0>>
    /\ UNCHANGED <<when_existing, db0, dict_tbl, learn_tbl, argv>>
    /\ UNCHANGED Locals

\* KeyboardInterrupt handled like EOFError, with conn.commit().
KeyboardInterrupt_with_commit ==
    /\ pc \in Prompts \cup {"insert_dict_tbl", "insert_learn_tbl"}
    /\ disk' = [dict_tbl |-> dict_tbl, learn_tbl |-> learn_tbl]
    /\ conn' = "closed"
    /\ pc' = "aborted"
    /\ exit_code' = <<0>>
    /\ UNCHANGED <<when_existing, db0, dict_tbl, learn_tbl, argv>>
    /\ UNCHANGED Locals

\* KeyboardInterrupt without the finally clause.
KeyboardInterrupt_without_close ==
    /\ pc \in Prompts \cup {"insert_dict_tbl", "insert_learn_tbl"}
    /\ pc' = "aborted"
    /\ exit_code' = <<0>>
    /\ UNCHANGED <<when_existing, db0, disk, conn, dict_tbl, learn_tbl, argv>>
    /\ UNCHANGED Locals

\* Ctrl+C: except KeyboardInterrupt commits nothing, finally closes, and the
\* pending transaction is lost with the connection.
KeyboardInterrupt ==
    /\ pc \in Prompts \cup {"insert_dict_tbl", "insert_learn_tbl"}
    /\ conn' = "closed"
    /\ pc' = "aborted"
    /\ exit_code' = <<0>>
    /\ UNCHANGED <<when_existing, db0, disk, dict_tbl, learn_tbl, argv>>
    /\ UNCHANGED Locals

\* main without "if args: ... sys.exit(1)".
main_ignoring_args ==
    /\ pc = "main"
    /\ when_existing' = parse_args(argv, option_defaults).when_existing
    /\ conn' = "open"
    /\ categories' = completer_init(dict_tbl)
    /\ pc' = "ask_for_question"
    /\ UNCHANGED <<db0, disk, dict_tbl, learn_tbl, argv, exit_code>>
    /\ UNCHANGED <<question, answer, category, last_category, cand, consumed,
                   last_input, cycle, log, completion>>

\* The script body: parse the command line, leave with status 1 on extra
\* arguments, else enter ask_for_entries up to its first prompt.
main ==
    /\ pc = "main"
    /\ LET opts == parse_args(argv, option_defaults)
       IN /\ when_existing' = opts.when_existing
          /\ IF opts.args # <<>>
             THEN /\ pc' = "exited"
                  /\ exit_code' = <<1>>
                  /\ UNCHANGED <<conn, categories>>
             ELSE /\ conn' = "open"
                  /\ categories' = completer_init(dict_tbl)
                  /\ pc' = "ask_for_question"
                  /\ UNCHANGED exit_code
    /\ UNCHANGED <<db0, disk, dict_tbl, learn_tbl, argv>>
    /\ UNCHANGED <<question, answer, category, last_category, cand, consumed,
                   last_input, cycle, log, completion>>

\* Texts and states readline may call the completer with.
TabTexts == {<<>>, <<"Y">>}

TabStates == {0, 1, 2}

\* TAB at the category prompt: readline calls completer.complete(text, state).
complete_tab(text, state) ==
    /\ pc = "ask_for_category"
    /\ completion' = <<text, state, complete(categories, text, state)>>
    /\ UNCHANGED <<when_existing, db0, disk, conn, dict_tbl, learn_tbl, pc,
                   question, answer, category, last_category, cand,
                   categories, consumed, last_input, cycle, log, argv,
                   exit_code>>

Next ==
    \/ main
    \/ \E text \in TabTexts, state \in TabStates : complete_tab(text, state)
    \/ \E line \in Lines : ask_for_question(line)
    \/ \E line \in Lines : confirm_question(line)
    \/ \E line \in Lines : ask_for_answer(line)
    \/ \E line \in Lines : confirm_answer(line)
    \/ \E line \in Lines : ask_for_category(line)
    \/ \E line \in Lines : confirm_category(line)
    \/ insert_dict_tbl
    \/ insert_learn_tbl
    \/ EOFError
    \/ KeyboardInterrupt

Spec == Init /\ [][Next]_vars

\* The steps of the program itself: every step but a TAB of the user.
Progress ==
    \/ main
    \/ \E line \in Lines : ask_for_question(line)
    \/ \E line \in Lines : confirm_question(line)
    \/ \E line \in Lines : ask_for_answer(line)
    \/ \E line \in Lines : confirm_answer(line)
    \/ \E line \in Lines : ask_for_category(line)
    \/ \E line \in Lines : confirm_category(line)
    \/ insert_dict_tbl
    \/ insert_learn_tbl
    \/ EOFError
    \/ KeyboardInterrupt

\* The program runs on while it can: input() returns a line or raises
\* EOFError once the finite input is used up, and a statement that is not
\* blocked is executed.
FairSpec == Spec /\ WF_vars(Progress)

(* ------------------------- vocabulary of the claims -------------------- *)

\* A step in which a line was read at prompt p; the line is last_input'.line.
ReadAt(p) == pc = p /\ consumed' = consumed + 1

\* Some stored entry has this question / this answer (as SQL compares them).
StoredQuestion(q) == \E i \in DOMAIN dict_tbl : trim(dict_tbl[i][1]) = q

StoredAnswer(a) == \E i \in DOMAIN dict_tbl : trim(dict_tbl[i][2]) = a

\* The stored entries that use category c.
UsedBy(c) == {i \in DOMAIN dict_tbl : dict_tbl[i][3] = c}

\* The cycle is abandoned: the next line is read as a question and nothing
\* was written for it.
Restarted ==
    /\ pc' = "ask_for_question"
    /\ dict_tbl' = dict_tbl
    /\ learn_tbl' = learn_tbl
    /\ log' = log

NewLearnRows(n) == [i \in 1..n |-> DefaultLearn]

(* ------------------------------- claims -------------------------------- *)

\* C1: when the session ends by end-of-input, the committed database holds
\* exactly the rows it held at the start, followed by one entry and one
\* default scheduling record for each cycle in which question, answer and
\* category were all accepted; the lines of an unfinished cycle add nothing.
C1_EndOfInputCommitsCompletedCycles ==
    pc = "saved" =>
        /\ disk.dict_tbl = db0.dict_tbl \o log
        /\ disk.learn_tbl = db0.learn_tbl \o NewLearnRows(Len(log))

\* Two cycles were completed and a third was under way at end-of-input.
C1_Witness == pc = "saved" /\ Len(log) = 2 /\ cycle # <<>>

\* C2: when the session ends by Ctrl+C, wherever it arrives, the committed
\* database is the database of the session's start.
C2_InterruptCommitsNothing == pc = "aborted" => disk = db0

\* Ctrl+C between the two INSERTs of the second accepted cycle.
C2_Witness ==
    /\ pc = "aborted"
    /\ Len(log) = 2
    /\ Len(dict_tbl) = Len(db0.dict_tbl) + 2
    /\ Len(learn_tbl) = Len(db0.learn_tbl) + 1

\* C3: under EXISTING_ADD no confirmation prompt is ever reached (so no
\* confirmation line is read), and at each of the three prompts every
\* non-empty candidate is accepted, conflict or not.
C3_AddAcceptsEveryNonEmptyCandidate ==
    [][when_existing = EXISTING_ADD =>
        /\ pc' \notin ConfirmPrompts
        /\ LET v == strip(last_input'.line)
               c == category_candidate(last_input'.line, last_category)
           IN /\ (ReadAt("ask_for_question") /\ Truthy(v)) =>
                     (pc' = "ask_for_answer" /\ question' = v)
              /\ (ReadAt("ask_for_answer") /\ Truthy(v)) =>
                     (pc' = "ask_for_category" /\ answer' = v)
              /\ (ReadAt("ask_for_category") /\ Truthy(c)) =>
                     (pc' = "insert_dict_tbl" /\ category' = c)]_vars

\* Under EXISTING_ADD a stored question, a stored answer and an unused
\* category were accepted in one cycle.
C3_Witness ==
    /\ when_existing = EXISTING_ADD
    /\ pc = "insert_dict_tbl"
    /\ StoredQuestion(question)
    /\ StoredAnswer(answer)
    /\ UsedBy(category) = {}
    /\ consumed = 3

\* C4: under EXISTING_SKIP no confirmation prompt is ever reached, and at
\* each of the three prompts a candidate with a conflict is rejected: the
\* one line read is all that is consumed and the next line is read as the
\* question of a new cycle.
C4_SkipRejectsEveryConflict ==
    [][when_existing = EXISTING_SKIP =>
        /\ pc' \notin ConfirmPrompts
        /\ LET v == strip(last_input'.line)
               c == category_candidate(last_input'.line, last_category)
           IN /\ (ReadAt("ask_for_question") /\ StoredQuestion(v)) => Restarted
              /\ (ReadAt("ask_for_answer") /\ StoredAnswer(v)) => Restarted
              /\ (ReadAt("ask_for_category") /\ UsedBy(c) = {}) => Restarted]_vars

\* Under EXISTING_SKIP a stored answer was just rejected after a question
\* had been accepted.
C4_Witness ==
    /\ when_existing = EXISTING_SKIP
    /\ pc = "ask_for_question"
    /\ last_input.at = "ask_for_answer"
    /\ Truthy(strip(last_input.line))
    /\ StoredAnswer(strip(last_input.line))
    /\ Truthy(question)

\* A line was read at a prompt whose candidate is empty: at the question or
\* answer prompt the line strips to nothing; at the category prompt it does
\* and there is no previously accepted category to fall back on.
EmptyCandidateRead ==
    /\ consumed' = consumed + 1
    /\ ~Truthy(strip(last_input'.line))
    /\ \/ pc \in {"ask_for_question", "ask_for_answer"}
       \/ pc = "ask_for_category" /\ last_category = None

\* The candidate of the confirmation prompt at pc goes on to the next stage.
ConfirmedCandidateAccepted ==
    \/ pc = "confirm_question" /\ pc' = "ask_for_answer" /\ question' = cand
    \/ pc = "confirm_answer" /\ pc' = "ask_for_category" /\ answer' = cand
    \/ pc = "confirm_category" /\ pc' = "insert_dict_tbl" /\ category' = cand

\* C5: under EXISTING_ASK, whenever a line is read at a confirmation prompt
\* (shown for a candidate with a conflict), the candidate is accepted if and
\* only if the line, stripped and lower-cased, is "y" or "yes".
C5_AskAcceptsIffYes ==
    [][(pc \in ConfirmPrompts /\ consumed' = consumed + 1) =>
        LET reply == lower(strip(last_input'.line))
        IN ConfirmedCandidateAccepted <=>
               (reply = <<"y">> \/ reply = <<"y", "e", "s">>)]_vars

\* C6 as stated, for every session state: an empty line at the question,
\* answer or category prompt ends the cycle with nothing accepted for it.
\* (The restart is taken in its weakest reading: the next prompt is the
\* question prompt or a confirmation prompt.)
C6_EmptyLineAlwaysRestarts ==
    [][(pc \in AskPrompts /\ consumed' = consumed + 1
            /\ ~Truthy(strip(last_input'.line))) =>
        /\ pc' \in {"ask_for_question"} \cup ConfirmPrompts
        /\ dict_tbl' = dict_tbl
        /\ learn_tbl' = learn_tbl
        /\ log' = log]_vars

\* C6 as amended: an empty line at the question prompt, at the answer
\* prompt, or at the category prompt while no category has been accepted
\* before, writes nothing for that cycle and leads back to the question
\* prompt: at once, or after one confirmation prompt for the empty candidate
\* whose reply, whatever it is, leads back to the question prompt.
C6_EmptyLineRestartsUnlessDefault ==
    [][/\ EmptyCandidateRead =>
            /\ dict_tbl' = dict_tbl
            /\ learn_tbl' = learn_tbl
            /\ log' = log
            /\ \/ pc' = "ask_for_question"
               \/ pc' \in ConfirmPrompts /\ ~Truthy(cand')
       /\ (pc \in ConfirmPrompts /\ ~Truthy(cand) /\ consumed' = consumed + 1)
            => Restarted]_vars

\* After a completed cycle (its category is the default now) an empty answer
\* has just sent the collector back to the question prompt.
C6_Witness ==
    /\ pc = "ask_for_question"
    /\ last_input.at = "ask_for_answer"
    /\ ~Truthy(strip(last_input.line))
    /\ Truthy(last_category)
    /\ Len(log) = 1
    /\ dict_tbl = db0.dict_tbl \o log

\* C7: an empty candidate never leads to a confirmation prompt: after it the
\* very next line is read as a question.
C7_EmptyCandidateNeverAsks ==
    [][EmptyCandidateRead => pc' = "ask_for_question"]_vars

Edges ==
    { <<"ask_for_question", "confirm_question">>,
      <<"ask_for_question", "ask_for_answer">>,
      <<"confirm_question", "ask_for_answer">>,
      <<"confirm_question", "ask_for_question">>,
      <<"ask_for_answer", "confirm_answer">>,
      <<"ask_for_answer", "ask_for_category">>,
      <<"ask_for_answer", "ask_for_question">>,
      <<"confirm_answer", "ask_for_category">>,
      <<"confirm_answer", "ask_for_question">>,
      <<"ask_for_category", "confirm_category">>,
      <<"ask_for_category", "insert_dict_tbl">>,
      <<"ask_for_category", "ask_for_question">>,
      <<"confirm_category", "insert_dict_tbl">>,
      <<"confirm_category", "ask_for_question">>,
      <<"insert_dict_tbl", "insert_learn_tbl">>,
      <<"insert_learn_tbl", "ask_for_question">> }

\* The candidate of a line read at ask prompt p.
CandidateAt(p, line, last) ==
    IF p = "ask_for_category" THEN category_candidate(line, last)
    ELSE strip(line)

\* C8: the collector moves only along AwaitQuestion -> AwaitAnswer ->
\* AwaitCategory -> insert -> AwaitQuestion (each Await state with its
\* confirmation prompt); a row is appended to dict_tbl only at the insert,
\* when a question, an answer and a category were accepted in this order in
\* the current cycle, and it is the triple of those values; each accepted
\* value is the candidate of the line read (the stripped line, or the
\* default category); and whenever the collector is back at the question
\* prompt nothing accepted earlier is carried over.
C8_CollectorStateMachine ==
    [][/\ (pc' # pc /\ pc # "main" /\ pc' \notin {"saved", "aborted"}) =>
            <<pc, pc'>> \in Edges
       /\ dict_tbl' # dict_tbl =>
            /\ pc = "insert_dict_tbl"
            /\ Len(cycle) = 3
            /\ dict_tbl' = Append(dict_tbl,
                   <<cycle[1].value, cycle[2].value, cycle[3].value>>)
       /\ (pc \in AskPrompts /\ consumed' = consumed + 1) =>
            LET v == CandidateAt(pc, last_input'.line, last_category)
            IN /\ pc' \in ConfirmPrompts => cand' = v
               /\ pc' \notin ConfirmPrompts \cup {"ask_for_question"} =>
                      cycle' = Append(cycle, Accepted(v, cycle'[Len(cycle')].exists, FALSE))
       /\ (pc \in ConfirmPrompts /\ consumed' = consumed + 1
               /\ pc' # "ask_for_question") =>
            cycle' = Append(cycle, Accepted(cand, TRUE, TRUE))
       /\ pc' = "ask_for_question" => cycle' = <<>>
       /\ Len(cycle') =
            CASE pc' \in {"ask_for_question", "confirm_question"} -> 0
              [] pc' \in {"ask_for_answer", "confirm_answer"} -> 1
              [] pc' \in {"ask_for_category", "confirm_category"} -> 2
              [] pc' \in {"insert_dict_tbl", "insert_learn_tbl"} -> 3
              [] OTHER -> Len(cycle)]_vars

\* Under EXISTING_SKIP, after one entry was appended, a question and an
\* answer were accepted and the category was then rejected: the collector
\* is back at the question prompt.
C8_Witness ==
    /\ when_existing = EXISTING_SKIP
    /\ pc = "ask_for_question"
    /\ last_input.at = "ask_for_category"
    /\ Truthy(strip(last_input.line))
    /\ Truthy(question)
    /\ Truthy(answer)
    /\ Len(log) = 1
    /\ dict_tbl = db0.dict_tbl \o log
    /\ dict_tbl[Len(dict_tbl)] # <<question, answer, strip(last_input.line)>>

\* C9: under every policy, a non-empty question no stored entry has, then a
\* non-empty answer no stored entry has, then a category some stored entry
\* uses, are each accepted without a confirmation prompt, and the insert
\* that follows appends exactly that triple to dict_tbl and one default
\* scheduling record to learn_tbl.
C9_RegularAddition ==
    [][/\ LET v == strip(last_input'.line)
              c == category_candidate(last_input'.line, last_category)
          IN /\ (ReadAt("ask_for_question") /\ Truthy(v) /\ ~StoredQuestion(v)) =>
                    (pc' = "ask_for_answer" /\ question' = v)
             /\ (ReadAt("ask_for_answer") /\ Truthy(v) /\ ~StoredAnswer(v)) =>
                    (pc' = "ask_for_category" /\ answer' = v /\ question' = question)
             /\ (ReadAt("ask_for_category") /\ UsedBy(c) # {}) =>
                    /\ pc' = "insert_dict_tbl"
                    /\ category' = c
                    /\ question' = question
                    /\ answer' = answer
       /\ (pc = "insert_dict_tbl" /\ pc' # "aborted") =>
            /\ pc' = "insert_learn_tbl"
            /\ dict_tbl' = Append(dict_tbl, <<question, answer, category>>)
            /\ learn_tbl' = learn_tbl
       /\ (pc = "insert_learn_tbl" /\ pc' # "aborted") =>
            /\ pc' = "ask_for_question"
            /\ dict_tbl' = dict_tbl
            /\ learn_tbl' = Append(learn_tbl, DefaultLearn)]_vars

\* Under EXISTING_ASK a new question, a new answer and a used category were
\* given in three lines and the entry has just been appended.
C9_Witness ==
    /\ when_existing = EXISTING_ASK
    /\ pc = "insert_learn_tbl"
    /\ consumed = 3
    /\ Len(cycle) = 3
    /\ \A i \in 1..3 : ~cycle[i].exists /\ ~cycle[i].asked
    /\ dict_tbl = Append(db0.dict_tbl,
           <<cycle[1].value, cycle[2].value, cycle[3].value>>)

\* C10 as stated: at the category prompt a candidate used by a stored entry
\* is accepted under every policy without a prompt; a candidate used by none
\* is prompted under EXISTING_ASK, rejected under EXISTING_SKIP and accepted
\* under EXISTING_ADD.
C10_UnknownCategoryByPolicy ==
    [][ReadAt("ask_for_category") =>
        LET c == category_candidate(last_input'.line, last_category)
        IN IF UsedBy(c) # {}
           THEN pc' = "insert_dict_tbl" /\ category' = c
           ELSE CASE when_existing = EXISTING_ASK ->
                         pc' = "confirm_category" /\ cand' = c
                  [] when_existing = EXISTING_SKIP -> Restarted
                  [] when_existing = EXISTING_ADD ->
                         pc' = "insert_dict_tbl" /\ category' = c]_vars

\* C10 as amended: as stated, except that under EXISTING_ADD a candidate
\* used by no stored entry is accepted when it is non-empty and rejected
\* when it is empty.
C10_UnknownCategoryByPolicyNonEmptyAdd ==
    [][ReadAt("ask_for_category") =>
        LET c == category_candidate(last_input'.line, last_category)
        IN IF UsedBy(c) # {}
           THEN pc' = "insert_dict_tbl" /\ category' = c
           ELSE CASE when_existing = EXISTING_ASK ->
                         pc' = "confirm_category" /\ cand' = c
                  [] when_existing = EXISTING_SKIP -> Restarted
                  [] when_existing = EXISTING_ADD ->
                         IF Truthy(c)
                         THEN pc' = "insert_dict_tbl" /\ category' = c
                         ELSE Restarted]_vars

\* Under EXISTING_ADD a category no stored entry uses was just accepted,
\* after a question and an answer without conflict.
C10_Witness ==
    /\ when_existing = EXISTING_ADD
    /\ pc = "insert_dict_tbl"
    /\ last_input.at = "ask_for_category"
    /\ category = strip(last_input.line)
    /\ UsedBy(category) = {}
    /\ ~StoredQuestion(question)
    /\ ~StoredAnswer(answer)

\* The decision the category prompt takes for a typed category c: no prompt
\* and acceptance when some stored entry uses c, else the policy's way.
TypedCategoryDecision(c) ==
    IF UsedBy(c) # {}
    THEN pc' = "insert_dict_tbl" /\ category' = c /\ last_category' = c
    ELSE CASE when_existing = EXISTING_ASK ->
                  pc' = "confirm_category" /\ cand' = c
           [] when_existing = EXISTING_SKIP -> Restarted
           [] when_existing = EXISTING_ADD ->
                  pc' = "insert_dict_tbl" /\ category' = c

\* C11: when a category was accepted in an earlier cycle and the line read
\* at the category prompt is empty, the candidate is that category and the
\* step decides about it exactly as about a typed category.
C11_EmptyLineTakesLastCategory ==
    [][(ReadAt("ask_for_category") /\ ~Truthy(strip(last_input'.line))
            /\ Truthy(last_category)) =>
        TypedCategoryDecision(last_category)]_vars

\* In the second cycle an empty line at the category prompt has just been
\* accepted as the category of the first cycle.
C11_Witness ==
    /\ pc = "insert_dict_tbl"
    /\ last_input.at = "ask_for_category"
    /\ ~Truthy(strip(last_input.line))
    /\ Len(log) = 2
    /\ category = log[1][3]
    /\ log[2][3] = log[1][3]

\* The policy the last -f / -s of a command line asks for.
PolicyOfLastFlag(args) ==
    LET flags == {i \in DOMAIN args : args[i] \in {"-f", "-s"}}
    IN IF flags = {} THEN EXISTING_ASK
       ELSE LET last == CHOOSE i \in flags : \A j \in flags : j <= i
            IN IF args[last] = "-f" THEN EXISTING_ADD ELSE EXISTING_SKIP

\* C12: once the command line is parsed the policy is the one of the last
\* -f (ADD) or -s (SKIP) on it, ASK when there is neither, and it never
\* changes afterwards.
C12_LastFlagDecidesPolicy ==
    /\ [](pc # "main" => when_existing = PolicyOfLastFlag(argv))
    /\ [][pc # "main" => when_existing' = when_existing]_vars

\* A session started with "-f -s" runs under EXISTING_SKIP and has accepted
\* a cycle.
C12_Witness ==
    /\ argv = <<"-f", "-s">>
    /\ when_existing = EXISTING_SKIP
    /\ pc = "insert_dict_tbl"

\* The command line holds something that is not one of the options.
ExtraArguments(args) ==
    \E i \in DOMAIN args :
        args[i] \notin {"-f", "--force", "-s", "--skip-existing", "-v", "--verbose"}

\* C13: with extra positional arguments the program ends with exit status 1
\* and has not opened the database, read a line or written anything; a run
\* that ends by end-of-input or by Ctrl+C ends with exit status 0.
C13_ExitCodes ==
    /\ (ExtraArguments(argv) /\ pc # "main") =>
           /\ pc = "exited"
           /\ exit_code = <<1>>
           /\ conn = "unopened"
           /\ consumed = 0
           /\ disk = db0
           /\ dict_tbl = db0.dict_tbl
           /\ learn_tbl = db0.learn_tbl
    /\ pc = "exited" => ExtraArguments(argv)
    /\ pc \in {"saved", "aborted"} => exit_code = <<0>>
    /\ pc \notin {"saved", "aborted", "exited"} => exit_code = <<>>

\* The run with an extra argument is over.
C13_Witness == argv = <<"-f", "extra">> /\ pc = "exited" /\ exit_code = <<1>>

\* The category of the entry appended last in this session, None when the
\* session has appended none.
LastAppendedCategory ==
    IF Len(dict_tbl) = Len(db0.dict_tbl) THEN None
    ELSE dict_tbl[Len(dict_tbl)][3]

\* C14: last_category is None at startup; it changes only in a step that
\* accepts a category, to that category; and at the question prompt it is
\* the category of the entry appended last in this session (None when none
\* was appended).
C14_LastCategory ==
    /\ [](pc = "main" => last_category = None)
    /\ [](pc = "ask_for_question" => last_category = LastAppendedCategory)
    /\ [][last_category' # last_category =>
            /\ pc \in {"ask_for_category", "confirm_category"}
            /\ pc' = "insert_dict_tbl"
            /\ Truthy(category')
            /\ last_category' = category']_vars

\* After one appended entry a typed category was rejected: the default is
\* still the category of that entry.
C14_Witness ==
    /\ pc = "ask_for_question"
    /\ last_input.at \in {"ask_for_category", "confirm_category"}
    /\ category = None
    /\ Len(log) = 1
    /\ last_category = log[1][3]

IsPrefix(a, b) == Len(a) <= Len(b) /\ SubSeq(b, 1, Len(a)) = a

\* C15: in every state dict_tbl is the table of the session's start followed
\* by the triples accepted in this session, in the order of their
\* acceptance (the latest one may still await its INSERT), learn_tbl is the
\* start table followed by one default record for each of them (the latest
\* may still await its INSERT), and every step leaves the rows both tables
\* already hold in place, unchanged.
C15_AppendOnly ==
    /\ [](LET n == Len(dict_tbl) - Len(db0.dict_tbl)
              m == Len(learn_tbl) - Len(db0.learn_tbl)
          IN /\ n \in {Len(log), Len(log) - 1}
             /\ n >= 0
             /\ m \in {n, n - 1}
             /\ m >= 0
             /\ dict_tbl = db0.dict_tbl \o SubSeq(log, 1, n)
             /\ learn_tbl = db0.learn_tbl \o NewLearnRows(m))
    /\ [][IsPrefix(dict_tbl, dict_tbl') /\ IsPrefix(learn_tbl, learn_tbl')]_vars

\* Under EXISTING_ADD a second entry with the question of the first one was
\* appended after it.
C15_Witness ==
    /\ when_existing = EXISTING_ADD
    /\ pc = "ask_for_question"
    /\ Len(log) = 2
    /\ log[1][1] = log[2][1]
    /\ dict_tbl = db0.dict_tbl \o log
    /\ db0.dict_tbl # <<>>

StartsWith(c, text) ==
    /\ Len(text) <= Len(c)
    /\ \A i \in 1..Len(text) : c[i] = text[i]

\* The state-th (from 0) category of the list that starts with text, None
\* when there are not that many.
NthMatch(cats, text, state) ==
    LET matches == {i \in DOMAIN cats : StartsWith(cats[i], text)}
    IN IF state < Cardinality(matches)
       THEN cats[CHOOSE i \in matches :
                     Cardinality({j \in matches : j < i}) = state]
       ELSE None

\* C16: while the session runs, the completer's list has no duplicates and
\* holds exactly the categories of the database at startup and the
\* categories accepted in this session (so no rejected one); and a call
\* complete(text, state) returned the state-th listed category starting
\* with text, or None when there are not that many.
C16_CompleterCategories ==
    pc \notin {"main", "exited"} =>
        /\ \A i, j \in DOMAIN categories :
               categories[i] = categories[j] => i = j
        /\ Range(categories) =
               {db0.dict_tbl[i][3] : i \in DOMAIN db0.dict_tbl}
                   \cup {log[i][3] : i \in DOMAIN log}
        /\ completion # <<>> =>
               completion[3] = NthMatch(categories, completion[1], completion[2])

\* A category accepted in this session is in the list and TAB has just
\* returned it as the second match of "Y".
C16_Witness ==
    /\ pc = "ask_for_category"
    /\ Len(log) = 1
    /\ log[1][3] \notin {db0.dict_tbl[i][3] : i \in DOMAIN db0.dict_tbl}
    /\ completion # <<>>
    /\ completion[1] = <<"Y">>
    /\ completion[2] = 1
    /\ completion[3] = log[1][3]

\* The rows this session has inserted (none of them is committed yet).
SessionRows ==
    {dict_tbl[i] : i \in (Len(db0.dict_tbl) + 1)..Len(dict_tbl)}

\* What a conflict leads to for candidate v: the confirmation prompt under
\* EXISTING_ASK, rejection under EXISTING_SKIP, acceptance (into stage next)
\* under EXISTING_ADD.
ConflictOutcome(confirmPrompt, next, v) ==
    CASE when_existing = EXISTING_ASK -> pc' = confirmPrompt /\ cand' = v
      [] when_existing = EXISTING_SKIP -> Restarted
      [] when_existing = EXISTING_ADD -> pc' = next

\* C17: a candidate question or answer equal to the question or answer of
\* an entry inserted earlier in this session (and not committed) is treated
\* as a conflict, and a candidate category equal to the category of such an
\* entry is accepted without a prompt under every policy.
C17_ConflictsSeePendingRows ==
    [][LET v == strip(last_input'.line)
           c == category_candidate(last_input'.line, last_category)
       IN /\ (ReadAt("ask_for_question") /\ \E r \in SessionRows : r[1] = v) =>
                 ConflictOutcome("confirm_question", "ask_for_answer", v)
          /\ (ReadAt("ask_for_answer") /\ \E r \in SessionRows : r[2] = v) =>
                 ConflictOutcome("confirm_answer", "ask_for_category", v)
          /\ (ReadAt("ask_for_category") /\ \E r \in SessionRows : r[3] = c) =>
                 (pc' = "insert_dict_tbl" /\ category' = c)]_vars

\* Under EXISTING_SKIP a question that only an uncommitted entry of this
\* session has was just rejected.
C17_Witness ==
    /\ when_existing = EXISTING_SKIP
    /\ pc = "ask_for_question"
    /\ last_input.at = "ask_for_question"
    /\ \E r \in SessionRows : r[1] = strip(last_input.line)
    /\ \A i \in DOMAIN disk.dict_tbl :
           trim(disk.dict_tbl[i][1]) # strip(last_input.line)
    /\ disk = db0

CategoriesOf(tbl) == {tbl[i][3] : i \in DOMAIN tbl}

\* C18: under EXISTING_SKIP every row appended to dict_tbl has, when it is
\* appended, a question no stored entry has, an answer no stored entry has
\* and a category some stored entry uses; so the set of stored categories
\* stays the one of the session's start, and a session started on a
\* database without entries accepts and appends nothing.
C18_SkipAppendsOnlyFreshEntries ==
    /\ [][(when_existing = EXISTING_SKIP /\ dict_tbl' # dict_tbl) =>
            LET r == dict_tbl'[Len(dict_tbl')]
            IN /\ dict_tbl' = Append(dict_tbl, r)
               /\ ~StoredQuestion(r[1])
               /\ ~StoredAnswer(r[2])
               /\ \A i \in DOMAIN dict_tbl :
                      dict_tbl[i][1] # r[1] /\ dict_tbl[i][2] # r[2]
               /\ UsedBy(r[3]) # {}]_vars
    /\ [](when_existing = EXISTING_SKIP =>
            /\ CategoriesOf(dict_tbl) = CategoriesOf(db0.dict_tbl)
            /\ db0.dict_tbl = <<>> => (dict_tbl = <<>> /\ log = <<>>))

\* Under EXISTING_SKIP two entries were appended in this session.
C18_Witness ==
    /\ when_existing = EXISTING_SKIP
    /\ pc = "ask_for_question"
    /\ Len(log) = 2
    /\ dict_tbl = db0.dict_tbl \o log
    /\ log[1][3] = log[2][3]

LoopPositions == Prompts \cup {"insert_dict_tbl", "insert_learn_tbl"}

\* C19: the session terminates; a pass through the loop starts by consuming
\* an input line; the loop is left only by end-of-input or by Ctrl+C; and
\* the connection is closed exactly on these two exits, with the pending
\* rows committed first when the exit is end-of-input.
C19_TerminatesAndCloses ==
    /\ <>(pc \in {"saved", "aborted", "exited"})
    /\ [][(pc = "ask_for_question" /\ pc' \notin {"saved", "aborted"}) =>
            consumed' = consumed + 1]_vars
    /\ [][(pc \in LoopPositions /\ pc' \notin LoopPositions) =>
            pc' \in {"saved", "aborted"}]_vars
    /\ [](conn = "closed" <=> pc \in {"saved", "aborted"})
    /\ [][conn' # conn =>
            \/ pc = "main" /\ conn' = "open"
            \/ /\ conn = "open"
               /\ conn' = "closed"
               /\ pc' = "saved"
               /\ disk' = [dict_tbl |-> dict_tbl, learn_tbl |-> learn_tbl]
            \/ /\ conn = "open"
               /\ conn' = "closed"
               /\ pc' = "aborted"
               /\ disk' = disk]_vars

\* All the lines of the input were consumed, end-of-input followed, and the
\* rows of the session are committed and the connection closed.
C19_Witness ==
    /\ pc = "saved"
    /\ conn = "closed"
    /\ consumed = MaxLines
    /\ Len(log) = 2
    /\ disk.dict_tbl = db0.dict_tbl \o log

=============================================================================
